---- MODULE Spec2Model ----
(***************************************************************************)
(* Model of python-ml-server/app.py: the FertilizerModelServer object      *)
(* (load_model, predict) and the three Flask handlers /health, /predict    *)
(* and /sms.                                                               *)
(*                                                                         *)
(* Python strings are TLA+ strings; a formatted string (f"...") is the     *)
(* sequence of its fragments in order.  Python values carried by a request *)
(* are records [type, val]: type is the Python type of the value and val   *)
(* its text.  Confidence and yield are kept in tenths of a percent, class  *)
(* probabilities in units of 1/ProbaScale.                                 *)
(***************************************************************************)
EXTENDS Integers, Sequences, FiniteSets, TLC

VARIABLES
    model,          \* self.model: 0 is None, n > 0 the classifier read by the n-th load_model call
    label_encoder,  \* self.label_encoder: same encoding
    loads,          \* number of load_model calls made so far
    loadRet,        \* return value of the most recent load_model call
    loadCause,      \* why it returned that: "ok", "missing" (a pickle was not on disk) or "raised"
    req,            \* the most recent HTTP request
    resp,           \* the response to it
    predictCalled,  \* model_server.predict was entered while handling req
    parsed,         \* the SMS body parser ran while handling req
    modelInput,     \* the feature row handed to self.model.predict while handling req (<<>> if none)
    used,           \* the load ids of self.model (line 92) and self.label_encoder (line 93) read by predict
    raised          \* the texts of the exceptions raised while handling req

vars == <<model, label_encoder, loads, loadRet, loadCause, req, resp,
          predictCalled, parsed, modelInput, used, raised>>

\* ---------------------------------------------------------------- bounds
MaxLoads == 2   \* load_model calls in one behaviour
MaxBad == 1     \* fields of one request that carry an invalid value

\* ---------------------------------------------------------------- constants of app.py
None == 0
Unread == -1

MODEL_COLUMNS ==
    <<"Temparature", "Humidity", "Moisture", "Soil_Type", "Crop_Type",
      "Nitrogen", "Potassium", "Phosphorous">>

soil_type_map ==
    [k \in {"Sandy", "Clay", "Loamy", "Black", "Red", "Clayey"} |->
        CASE k = "Sandy" -> 0 [] k = "Clay" -> 1 [] k = "Loamy" -> 2
          [] k = "Black" -> 3 [] k = "Red" -> 4 [] k = "Clayey" -> 5]

crop_type_map ==
    [k \in {"Wheat", "Rice", "Maize", "Sugarcane", "Cotton", "Tobacco", "Paddy",
            "Barley", "Millets", "Oil seeds", "Pulses", "Ground Nuts"} |->
        CASE k = "Wheat" -> 0 [] k = "Rice" -> 1 [] k = "Maize" -> 2
          [] k = "Sugarcane" -> 3 [] k = "Cotton" -> 4 [] k = "Tobacco" -> 5
          [] k = "Paddy" -> 6 [] k = "Barley" -> 7 [] k = "Millets" -> 8
          [] k = "Oil seeds" -> 9 [] k = "Pulses" -> 10 [] k = "Ground Nuts" -> 11]

\* list(soil_type_map.keys()) and list(crop_type_map.keys()): insertion order
SoilKeys == <<"Sandy", "Clay", "Loamy", "Black", "Red", "Clayey">>
CropKeys == <<"Wheat", "Rice", "Maize", "Sugarcane", "Cotton", "Tobacco", "Paddy",
              "Barley", "Millets", "Oil seeds", "Pulses", "Ground Nuts">>

\* the list of line 196
NumericFields == <<"Temparature", "Humidity", "Moisture", "Nitrogen", "Potassium", "Phosphorous">>

application_rate == 150
FallbackConfidence == 900      \* 90.0, in tenths of a percent
ProbaScale == 3000             \* a class probability p stands for p / ProbaScale

\* ---------------------------------------------------------------- helpers
Range(s) == {s[i] : i \in DOMAIN s}

\* [col for col in cols if col not in d]
RECURSIVE MissingFrom(_, _)
MissingFrom(cols, keys) ==
    IF cols = <<>> THEN <<>>
    ELSE (IF Head(cols) \in keys THEN <<>> ELSE <<Head(cols)>>) \o MissingFrom(Tail(cols), keys)

\* str(n) for the codes of the lookup tables
IntText == [n \in 0 .. 11 |->
    CASE n = 0 -> "0" [] n = 1 -> "1" [] n = 2 -> "2" [] n = 3 -> "3"
      [] n = 4 -> "4" [] n = 5 -> "5" [] n = 6 -> "6" [] n = 7 -> "7"
      [] n = 8 -> "8" [] n = 9 -> "9" [] n = 10 -> "10" [] n = 11 -> "11"]

PyStr(s) == [type |-> "str", val |-> s]
PyInt(s) == [type |-> "int", val |-> s]
PyFloat(s) == [type |-> "float", val |-> s]

\* ---------------------------------------------------------------- load_model
\* What a load_model call finds on disk for each of the two pickles.
FileStates == {"missing", "corrupt", "ok"}
LoadEnvs == [fert : FileStates, cls : FileStates]

\* The effect of the id-th load_model call on (self.model, self.label_encoder).
load_model(m, le, id, env) ==
    IF env.fert = "missing"
    THEN [model |-> m, label_encoder |-> le, ret |-> FALSE, cause |-> "missing"]
    ELSE IF env.fert = "corrupt"
    THEN [model |-> m, label_encoder |-> le, ret |-> FALSE, cause |-> "raised"]
    ELSE IF env.cls = "missing"
    THEN [model |-> m, label_encoder |-> id, ret |-> FALSE, cause |-> "missing"]
    ELSE IF env.cls = "corrupt"
    THEN [model |-> m, label_encoder |-> id, ret |-> FALSE, cause |-> "raised"]
    ELSE [model |-> id, label_encoder |-> id, ret |-> TRUE, cause |-> "ok"]

\* GET /health
health_check(m) ==
    [status |-> IF m # None THEN "healthy" ELSE "unhealthy",
     model_loaded |-> (m # None)]

\* ---------------------------------------------------------------- the classifier and the encoder
\* The pickled artifacts are external data.  The label encoder's classes_:
classes_ == << <<"U", "r", "e", "a">>, <<"2", "0", "-", "2", "0", "-", "2", "0">> >>

Digits == {"0", "1", "2", "3", "4", "5", "6", "7", "8", "9"}

\* re.match(r'^(\d{2}-\d{2}-\d{2})$', name)
MatchesNpk(name) ==
    /\ Len(name) = 8
    /\ \A i \in {1, 2, 4, 5, 7, 8} : name[i] \in Digits
    /\ \A i \in {3, 6} : name[i] = "-"

\* What one call of the classifier does: it raises, or returns a class index;
\* proba is the probability of that class, or -1 when it has no predict_proba.
ModelOutcomes(probas) ==
    [raises : BOOLEAN, code : 0 .. (Len(classes_) - 1), proba : probas \cup {-1}]

\* ---------------------------------------------------------------- arithmetic of lines 105-112
\* round(n / d) for n >= 0, d > 0, ties to even
Round(n, d) ==
    LET q == n \div d
        r == n % d
    IN  IF 2 * r < d THEN q
        ELSE IF 2 * r > d THEN q + 1
        ELSE IF q % 2 = 0 THEN q ELSE q + 1

\* round(proba * 100, 1), in tenths of a percent
confidence_of(proba) == Round(proba * 100 * 10, ProbaScale)

\* expected_yield_increase with the confidence taken as a fraction already and no cap:
\* round(confidence * (application_rate / 150) * 40, 1)
expected_yield_increase_unscaled(confidence) ==
    Round(confidence * application_rate * 40 * 10, 10 * 150)

\* round(min((confidence / 100) * (application_rate / 150) * 40, 50), 1), in tenths;
\* confidence is in tenths, so the product is confidence * rate * 40 / (10 * 100 * 150)
expected_yield_increase(confidence) ==
    LET num == confidence * application_rate * 40
        den == 10 * 100 * 150
    IN  IF num <= 50 * den THEN Round(num * 10, den) ELSE 500

\* ---------------------------------------------------------------- FertilizerModelServer.predict
NoExc == <<>>
NoCall == <<>>

PredictOut(exc, ret, raisedTexts, input, usedIds) ==
    [exc |-> exc, ret |-> ret, raised |-> raisedTexts, modelInput |-> input, used |-> usedIds]

\* raise Exception(f"Prediction failed: {str(e)}") of the except clause, line 123
Wrap(e, input, usedIds) ==
    LET w == <<"Prediction failed: ">> \o e
    IN  PredictOut(w, <<>>, {e, w}, input, usedIds)

\* input_data: a dict, as a function from its keys to Python values.
\* m, le: self.model and self.label_encoder.  out: what the classifier does if called.
predict(input_data, m, le, out) ==
    LET keys == DOMAIN input_data
        missing == MissingFrom(MODEL_COLUMNS, keys)
        nothing == [model |-> Unread, label_encoder |-> Unread]
    IN
    IF missing # <<>>
    THEN Wrap(<<"Missing required field: ", Head(missing)>>, NoCall, nothing)
    ELSE
    LET soil_type_str == input_data["Soil_Type"]
        crop_type_str == input_data["Crop_Type"]
    IN
    IF ~(soil_type_str.type = "str" /\ soil_type_str.val \in DOMAIN soil_type_map)
    THEN Wrap(<<"Invalid Soil_Type: ", soil_type_str.val, ". Allowed: ">> \o SoilKeys, NoCall, nothing)
    ELSE IF ~(crop_type_str.type = "str" /\ crop_type_str.val \in DOMAIN crop_type_map)
    THEN Wrap(<<"Invalid Crop_Type: ", crop_type_str.val, ". Allowed: ">> \o CropKeys, NoCall, nothing)
    ELSE
    LET features ==
            [c \in Range(MODEL_COLUMNS) |->
                IF c = "Soil_Type" THEN PyInt(IntText[soil_type_map[soil_type_str.val]])
                ELSE IF c = "Crop_Type" THEN PyInt(IntText[crop_type_map[crop_type_str.val]])
                ELSE input_data[c]]
        readModel == [model |-> m, label_encoder |-> Unread]
        readBoth == [model |-> m, label_encoder |-> le]
    IN
    IF m = None
    THEN Wrap(<<"'NoneType' object has no attribute 'predict'">>, NoCall, readModel)
    ELSE IF out.raises
    THEN Wrap(<<"classifier error">>, <<features>>, readModel)
    ELSE IF le = None
    THEN Wrap(<<"'NoneType' object has no attribute 'classes_'">>, <<features>>, readBoth)
    ELSE
    LET pred_code == out.code
        fert_name == classes_[pred_code + 1]
        fert_name_display ==
            IF MatchesNpk(fert_name) THEN <<"N", "P", "K", " ">> \o fert_name ELSE fert_name
        confidence == IF out.proba # -1 THEN confidence_of(out.proba) ELSE FallbackConfidence
    IN  PredictOut(NoExc,
                   << [fertilizer_code |-> pred_code,
                       fertilizer_name |-> fert_name_display,
                       application_rate |-> application_rate,
                       confidence |-> confidence,
                       expected_yield_increase |-> expected_yield_increase(confidence),
                       crop_name |-> crop_type_str.val] >>,
                   {}, <<features>>, readBoth)

\* ---------------------------------------------------------------- responses
NoResult == <<>>

Response(endpoint, status, message, result) ==
    [endpoint |-> endpoint, status |-> status, message |-> message, result |-> result]

Handled(response, called, didParse, p) ==
    [resp |-> response, predictCalled |-> called, parsed |-> didParse,
     modelInput |-> p.modelInput, used |-> p.used, raised |-> p.raised]

NotPredicted ==
    PredictOut(NoExc, <<>>, {}, NoCall, [model |-> Unread, label_encoder |-> Unread])

\* ---------------------------------------------------------------- POST /predict
\* predict_endpoint with the check for missing fields left to model_server.predict
predict_endpoint_unchecked(body, m, le, out) ==
    LET p == predict(body, m, le, out)
    IN  IF DOMAIN body = {}
        THEN Handled(Response("predict", 400, <<"No input data provided">>, NoResult),
                     FALSE, FALSE, NotPredicted)
        ELSE IF p.exc # NoExc
        THEN Handled(Response("predict", 500, p.exc, NoResult), TRUE, FALSE, p)
        ELSE Handled(Response("predict", 200, <<>>, p.ret), TRUE, FALSE, p)

\* body: the JSON object of the request, as a function from its keys to values
predict_endpoint(body, m, le, out) ==
    LET missing_fields == MissingFrom(MODEL_COLUMNS, DOMAIN body)
        p == predict(body, m, le, out)
    IN
    IF DOMAIN body = {}
    THEN Handled(Response("predict", 400, <<"No input data provided">>, NoResult),
                 FALSE, FALSE, NotPredicted)
    ELSE IF missing_fields # <<>>
    THEN Handled(Response("predict", 400, <<"Missing required fields: ">> \o missing_fields, NoResult),
                 FALSE, FALSE, NotPredicted)
    ELSE IF p.exc # NoExc
    THEN Handled(Response("predict", 500, p.exc, NoResult), TRUE, FALSE, p)
    ELSE Handled(Response("predict", 200, <<>>, p.ret), TRUE, FALSE, p)

\* ---------------------------------------------------------------- POST /sms
\* key.strip().lower() on the keys that the messages below use
Lower ==
    [k \in {"Temp", "Temparature", "Humidity", "moisture", "Soil_Type", "crop", "N", "K", "P"} |->
        CASE k = "Temp" -> "temp" [] k = "Temparature" -> "temparature"
          [] k = "Humidity" -> "humidity" [] k = "moisture" -> "moisture"
          [] k = "Soil_Type" -> "soil_type" [] k = "crop" -> "crop"
          [] k = "N" -> "n" [] k = "K" -> "k" [] k = "P" -> "p"]

key_map ==
    [k \in {"temp", "temperature", "humidity", "moisture", "soil_type", "soil",
            "crop_type", "crop", "n", "nitrogen", "p", "phosphorous", "k", "potassium"} |->
        CASE k \in {"temp", "temperature"} -> "Temparature"
          [] k = "humidity" -> "Humidity"
          [] k = "moisture" -> "Moisture"
          [] k \in {"soil_type", "soil"} -> "Soil_Type"
          [] k \in {"crop_type", "crop"} -> "Crop_Type"
          [] k \in {"n", "nitrogen"} -> "Nitrogen"
          [] k \in {"p", "phosphorous"} -> "Phosphorous"
          [] k \in {"k", "potassium"} -> "Potassium"]

\* key_map.get(key, key)
MappedKey(key) == IF key \in DOMAIN key_map THEN key_map[key] ELSE key

EmptyDict == [k \in {} |-> PyStr("")]

\* data[k] = v
Put(data, k, v) == [x \in DOMAIN data \cup {k} |-> IF x = k THEN v ELSE data[x]]

\* The loop of lines 170-193 over incoming_msg.split(','): a part is
\* [colon, key, value], colon telling whether it contains ':'.
RECURSIVE ParseParts(_, _)
ParseParts(parts, data) ==
    IF parts = <<>> THEN data
    ELSE LET part == Head(parts)
         IN  IF part.colon
             THEN ParseParts(Tail(parts), Put(data, MappedKey(Lower[part.key]), PyStr(part.value)))
             ELSE ParseParts(Tail(parts), data)

\* float(s): the strings it accepts, and the text of the float it returns
FloatText == [s \in {"25"} |-> "25.0"]

\* The loop of lines 196-198: the converted dict, or the ValueError of the first
\* field whose text is not a float.
RECURSIVE ConvertNumeric(_, _)
ConvertNumeric(fields, data) ==
    IF fields = <<>> THEN [exc |-> NoExc, data |-> data]
    ELSE LET field == Head(fields)
         IN  IF field \notin DOMAIN data
             THEN ConvertNumeric(Tail(fields), data)
             ELSE IF data[field].val \in DOMAIN FloatText
             THEN ConvertNumeric(Tail(fields), Put(data, field, PyFloat(FloatText[data[field].val])))
             ELSE [exc |-> <<"could not convert string to float: ", data[field].val>>, data |-> data]

\* Lines 162-217: what sms_reply does once the signature has been accepted.
sms_process(parts, m, le, out) ==
    LET conv == ConvertNumeric(NumericFields, ParseParts(parts, EmptyDict))
        data == conv.data
        missing == MissingFrom(MODEL_COLUMNS, DOMAIN data)
        p == predict(data, m, le, out)
    IN
    IF conv.exc # NoExc
    THEN Handled(Response("sms", 200, <<"Error processing your request: ">> \o conv.exc, NoResult),
                 FALSE, TRUE, [NotPredicted EXCEPT !.raised = {conv.exc}])
    ELSE IF missing # <<>>
    THEN Handled(Response("sms", 200,
                          <<"Missing fields: ">> \o missing \o <<". Please send all required data.">>,
                          NoResult),
                 FALSE, TRUE, NotPredicted)
    ELSE IF p.exc # NoExc
    THEN Handled(Response("sms", 200, <<"Error processing your request: ">> \o p.exc, NoResult),
                 TRUE, TRUE, p)
    ELSE Handled(Response("sms", 200,
                          <<"Recommended Fertilizer: ", "Application Rate: ", "Confidence: ",
                            "Expected Yield Increase: ">>,
                          p.ret),
                 TRUE, TRUE, p)

\* sms_reply with the signature check left out
sms_reply_unchecked(is_valid, parts, m, le, out) == sms_process(parts, m, le, out)

\* is_valid: the result of validator.validate(url, post_vars, twilio_signature)
sms_reply(is_valid, parts, m, le, out) ==
    IF ~is_valid
    THEN Handled(Response("sms", 403, <<>>, NoResult), FALSE, FALSE, NotPredicted)
    ELSE sms_process(parts, m, le, out)

\* ---------------------------------------------------------------- requests
Columns == Range(MODEL_COLUMNS)
Numeric == Range(NumericFields)

\* For each column, whether a request leaves it out, gives it a valid value or
\* gives it an invalid one.
Choices ==
    {ch \in [Columns -> {"absent", "good", "bad"}] :
        Cardinality({c \in Columns : ch[c] = "bad"}) <= MaxBad}

Present(ch) == {c \in Columns : ch[c] # "absent"}

GoodText(c) == IF c = "Soil_Type" THEN "Sandy" ELSE IF c = "Crop_Type" THEN "Wheat" ELSE "25"
BadText(c) == IF c = "Soil_Type" THEN "Peaty" ELSE IF c = "Crop_Type" THEN "Kale" ELSE "abc"

\* JSON bodies of POST /predict: numbers for the numeric fields, strings otherwise;
\* extra adds a key that is no model column.
JsonValue(c, how) ==
    IF how = "bad" THEN PyStr(BadText(c))
    ELSE IF c \in Numeric THEN PyInt(GoodText(c)) ELSE PyStr(GoodText(c))

Body(ch, extra) ==
    [k \in Present(ch) \cup (IF extra THEN {"Extra"} ELSE {}) |->
        IF k = "Extra" THEN PyStr("x") ELSE JsonValue(k, ch[k])]

\* SMS bodies: the key each column is written with
SmsKey ==
    [c \in Columns |->
        CASE c = "Temparature" -> "Temp" [] c = "Humidity" -> "Humidity"
          [] c = "Moisture" -> "moisture" [] c = "Soil_Type" -> "Soil_Type"
          [] c = "Crop_Type" -> "crop" [] c = "Nitrogen" -> "N"
          [] c = "Potassium" -> "K" [] c = "Phosphorous" -> "P"]

RECURSIVE PartsOf(_, _)
PartsOf(cols, ch) ==
    IF cols = <<>> THEN <<>>
    ELSE LET c == Head(cols)
         IN  (IF ch[c] = "absent" THEN <<>>
              ELSE << [colon |-> TRUE, key |-> SmsKey[c],
                       value |-> IF ch[c] = "bad" THEN BadText(c) ELSE GoodText(c)] >>)
             \o PartsOf(Tail(cols), ch)

\* lead: "" for nothing, "text" for a part without a colon, "key" for a part whose
\* key no synonym covers
Leads == {"", "text", "key"}

Lead(lead) ==
    IF lead = "text" THEN << [colon |-> FALSE, key |-> "", value |-> "hello"] >>
    ELSE IF lead = "key" THEN << [colon |-> TRUE, key |-> "Temparature", value |-> "25"] >>
    ELSE <<>>

Message(ch, lead) == Lead(lead) \o PartsOf(MODEL_COLUMNS, ch)

ProbaSamples == {2620}

NoRequest == [endpoint |-> "none", body |-> EmptyDict, parts |-> <<>>, is_valid |-> FALSE]
NoResponse == Response("none", 0, <<>>, NoResult)

\* ---------------------------------------------------------------- the state machine
\* The state after FertilizerModelServer() : __init__ sets both attributes to
\* None and calls load_model() once.
Init ==
    /\ \E env \in LoadEnvs :
          LET l == load_model(None, None, 1, env)
          IN  /\ model = l.model
              /\ label_encoder = l.label_encoder
              /\ loadRet = l.ret
              /\ loadCause = l.cause
    /\ loads = 1
    /\ req = NoRequest
    /\ resp = NoResponse
    /\ predictCalled = FALSE
    /\ parsed = FALSE
    /\ modelInput = NoCall
    /\ used = [model |-> Unread, label_encoder |-> Unread]
    /\ raised = {}

Idle == req.endpoint = "none"

Handle(request, h) ==
    /\ req' = request
    /\ resp' = h.resp
    /\ predictCalled' = h.predictCalled
    /\ parsed' = h.parsed
    /\ modelInput' = h.modelInput
    /\ used' = h.used
    /\ raised' = h.raised
    /\ UNCHANGED <<model, label_encoder, loads, loadRet, loadCause>>

\* model_server.load_model() called again
LoadModel ==
    /\ loads < MaxLoads
    /\ \E env \in LoadEnvs :
          LET l == load_model(model, label_encoder, loads + 1, env)
          IN  /\ model' = l.model
              /\ label_encoder' = l.label_encoder
              /\ loadRet' = l.ret
              /\ loadCause' = l.cause
    /\ loads' = loads + 1
    /\ UNCHANGED <<req, resp, predictCalled, parsed, modelInput, used, raised>>

HealthCheck ==
    /\ Idle
    /\ Handle([NoRequest EXCEPT !.endpoint = "health"],
           Handled(Response("health", 200, <<>>, <<health_check(model)>>), FALSE, FALSE, NotPredicted))

PredictRequest(bodies, outs) ==
    /\ Idle
    /\ \E body \in bodies, out \in outs :
        Handle([NoRequest EXCEPT !.endpoint = "predict", !.body = body],
               predict_endpoint(body, model, label_encoder, out))

SmsRequest ==
    /\ Idle
    /\ \E ch \in Choices, lead \in Leads, is_valid \in BOOLEAN, out \in ModelOutcomes(ProbaSamples) :
        LET parts == Message(ch, lead)
        IN  Handle([NoRequest EXCEPT !.endpoint = "sms", !.parts = parts, !.is_valid = is_valid],
                   sms_reply(is_valid, parts, model, label_encoder, out))

\* The handler returns and the response goes out; the worker is free again.
Respond ==
    /\ ~Idle
    /\ req' = NoRequest
    /\ resp' = NoResponse
    /\ predictCalled' = FALSE
    /\ parsed' = FALSE
    /\ modelInput' = NoCall
    /\ used' = [model |-> Unread, label_encoder |-> Unread]
    /\ raised' = {}
    /\ UNCHANGED <<model, label_encoder, loads, loadRet, loadCause>>

Bodies == {Body(ch, extra) : ch \in Choices, extra \in BOOLEAN}

Next ==
    \/ LoadModel
    \/ HealthCheck
    \/ PredictRequest(Bodies, ModelOutcomes(ProbaSamples))
    \/ SmsRequest
    \/ Respond

Spec == Init /\ [][Next]_vars

\* Every class probability, for one complete request: the arithmetic of the result.
FullBody == Body([c \in Columns |-> "good"], FALSE)

NextScore ==
    \/ PredictRequest({FullBody}, ModelOutcomes(0 .. ProbaScale))
    \/ Respond

SpecScore == Init /\ [][NextScore]_vars

\* ---------------------------------------------------------------- properties
Names(message) == Range(message) \cap Columns

\* some text of texts occurs in message
Leaks(message, texts) ==
    \E t \in texts : \E i \in 1 .. Len(message) :
        /\ i + Len(t) - 1 <= Len(message)
        /\ SubSeq(message, i, i + Len(t) - 1) = t

PredictReq == req.endpoint = "predict"
SmsReq == req.endpoint = "sms"
MissingFields == Columns \ DOMAIN req.body
Rejected400 ==
    /\ resp.status = 400
    /\ resp.result = NoResult
    /\ ~predictCalled
    /\ modelInput = NoCall

\* C1 as stated: every POST /predict whose body lacks required fields, the empty
\* object included, gets a 400 whose message names exactly the missing fields,
\* without the model being invoked and without a success response.
C1_MissingNamedAlways ==
    (PredictReq /\ MissingFields # {}) =>
        (Rejected400 /\ Names(resp.message) = MissingFields)

\* C1 amended: every POST /predict whose JSON object lacks required fields gets a
\* 400, no success response and no model invocation; the message names exactly
\* the missing fields, in MODEL_COLUMNS order, when the object is not empty, and
\* is "No input data provided" when it is empty.
C1_MissingRejected ==
    (PredictReq /\ MissingFields # {}) =>
        /\ Rejected400
        /\ IF DOMAIN req.body = {}
           THEN resp.message = <<"No input data provided">>
           ELSE /\ Names(resp.message) = MissingFields
                /\ resp.message = <<"Missing required fields: ">> \o MissingFrom(MODEL_COLUMNS, DOMAIN req.body)

C1_Witness ==
    /\ PredictReq
    /\ Cardinality(MissingFields) = 3
    /\ "Extra" \in DOMAIN req.body
    /\ resp.status = 400
    /\ Len(resp.message) = 4

AllPresent == Columns \subseteq DOMAIN req.body
NumbersGiven == \A f \in Numeric : req.body[f].type \in {"int", "float"}
SoilKnown == req.body["Soil_Type"].val \in Range(SoilKeys)
CropKnown == req.body["Crop_Type"].val \in Range(CropKeys)

\* C2: a POST /predict with all eight fields whose Soil_Type or Crop_Type is no
\* key of its lookup table is rejected with status 400, the error lists the
\* allowed values, and the classifier is not called.
C2_InvalidCategory400 ==
    (PredictReq /\ AllPresent /\ ~(SoilKnown /\ CropKnown)) =>
        /\ resp.status = 400
        /\ modelInput = NoCall
        /\ \/ Range(SoilKeys) \subseteq Range(resp.message)
           \/ Range(CropKeys) \subseteq Range(resp.message)

\* C3: a fully valid POST /predict handled while self.model is None fails with
\* a service-unavailable status (503), not with 400 or 500.
C3_Unavailable503 ==
    (PredictReq /\ AllPresent /\ NumbersGiven /\ SoilKnown /\ CropKnown /\ used.model = None) =>
        resp.status = 503

\* C4: whenever the most recent load_model call returned False because a model
\* file was missing, /health reports "unhealthy" and model_loaded false.
C4_FailedLoadUnhealthy ==
    (~loadRet /\ loadCause = "missing") =>
        /\ health_check(model).status = "unhealthy"
        /\ ~health_check(model).model_loaded

Obtained(parts) ==
    {MappedKey(Lower[parts[i].key]) : i \in {j \in DOMAIN parts : parts[j].colon}} \cap Columns

\* C6: an authenticated POST /sms that does not give all eight fields is answered
\* with the text listing exactly the missing fields in MODEL_COLUMNS order, and
\* model_server.predict is not called, whatever the values of the fields present.
C6_MissingListed ==
    (SmsReq /\ req.is_valid /\ Obtained(req.parts) # Columns) =>
        /\ ~predictCalled
        /\ resp.message = <<"Missing fields: ">>
                            \o MissingFrom(MODEL_COLUMNS, Obtained(req.parts))
                            \o <<". Please send all required data.">>

\* C7: the expected_yield_increase of every successful prediction lies in
\* [0, 50], and the score is non-decreasing in confidence: every confidence
\* below the one reported scores no more, every confidence above it no less
\* (confidences 0.0 .. 100.0 in tenths of a percent).
C7_ScoreBoundedMonotone ==
    (PredictReq /\ resp.status = 200) =>
        LET r == resp.result[1]
        IN  /\ r.confidence \in 0 .. 1000
            /\ r.expected_yield_increase \in 0 .. 500
            /\ \A c \in 0 .. 1000 :
                  /\ c <= r.confidence => expected_yield_increase(c) <= r.expected_yield_increase
                  /\ c >= r.confidence => expected_yield_increase(c) >= r.expected_yield_increase

C7_Witness ==
    /\ PredictReq
    /\ resp.status = 200
    /\ resp.result[1].confidence = 1000
    /\ resp.result[1].expected_yield_increase = 400

\* C8: a POST /predict that fails with an internal error (500) carries no text
\* of any exception raised while it was handled.
C8_NoExceptionText ==
    (PredictReq /\ resp.status = 500) => ~Leaks(resp.message, raised)

\* C9: the classifier is never called with a non-numeric value in one of the
\* six numeric fields, on either entry point.
C9_NumericOnly ==
    modelInput # NoCall =>
        \A f \in Numeric : modelInput[1][f].type \in {"int", "float"}

\* C10: the classifier and the label encoder that one predict call uses come
\* from the same load_model call.
C10_SameLoad ==
    (used.model \notin {Unread, None} /\ used.label_encoder # Unread) =>
        used.model = used.label_encoder

====
